---- MODULE Spec2Model ----
(***************************************************************************)
(* libvirt-mcp: the VM control plane of src/vmcli.py (the command-line     *)
(* tool) and src/handlers.py (the MCP tool surface).                       *)
(*                                                                         *)
(* Every public operation is a short straight-line program of hypervisor   *)
(* calls with Python try/except/finally around them.  Each operation is    *)
(* written below as a table from program labels to instructions, taken     *)
(* line by line from its source; one action per kind of hypervisor call    *)
(* executes the instruction a caller stands at.  The hypervisor (libvirt)  *)
(* is the environment: the set of defined domains, their active flag,      *)
(* their interface MAC and their snapshots.  A hypervisor call may be      *)
(* rejected by the hypervisor, which raises libvirt.libvirtError.          *)
(***************************************************************************)
EXTENDS Integers, Sequences, FiniteSets, TLC

(***************************************************************************)
(* Strings are sequences of characters, so that the validation of          *)
(* create_vm and the case folding of get_vm_ip look at characters.         *)
(***************************************************************************)
Vm1 == <<"v", "1">>
Vm2 == <<"v", "2">>
EmptyStr == <<>>
MarkupName == <<"v", "<">>
DiskPath == <<"/", "d">>
QuotePath == <<"/", "'">>

\* The names and paths callers pass, and the names the hypervisor can hold.
ValidNames == {Vm1, Vm2}
NameInputs == ValidNames \cup {EmptyStr, MarkupName}
PathInputs == {DiskPath, EmptyStr, QuotePath}
CoresInputs == {0, 1}
MemoryInputs == {127, 128}
SnapNames == {"s1", "s2"}
Networks == {"default"}
NetworkInputs == {"default", "isolated"}
Callers == {1, 2}

\* The cap on the connections opened in one behaviour.
MaxOpens == 2

\* The characters create_vm refuses in a name or a path.
MarkupChars == {"<", ">", "&", "'", "\""}

\* any(c in s for c in "<>&'\"")
HasMarkup(s) == \E i \in DOMAIN s : s[i] \in MarkupChars

(***************************************************************************)
(* MAC addresses.  generate_mac formats six bytes with "%02x" and joins    *)
(* them with ":"; handlers.create_vm writes the literal 52:54:00:0c:94:61. *)
(***************************************************************************)
HexDigits == <<"0", "1", "2", "3", "4", "5", "6", "7", "8", "9", "a", "b", "c", "d", "e", "f">>

\* "%02x" % x
Hex02(x) == <<HexDigits[(x \div 16) + 1], HexDigits[(x % 16) + 1]>>

\* ':'.join(map(lambda x: "%02x" % x, mac))
JoinMac(bytes) ==
  Hex02(bytes[1]) \o <<":">> \o Hex02(bytes[2]) \o <<":">> \o Hex02(bytes[3]) \o <<":">>
    \o Hex02(bytes[4]) \o <<":">> \o Hex02(bytes[5]) \o <<":">> \o Hex02(bytes[6])

\* The values random.randint is taken to return for the three random bytes.
SampleBytes4 == {12}
SampleBytes5 == {148}
SampleBytes6 == {97, 98}

\* random.randint(lo, hi) over the sampled values
randint(lo, hi, sample) == {b \in sample : lo <= b /\ b <= hi}

\* The strings generate_mac can return.
generate_mac ==
  {JoinMac(<<82, 84, 0, b4, b5, b6>>) :
     b4 \in randint(0, 127, SampleBytes4),
     b5 \in randint(0, 255, SampleBytes5),
     b6 \in randint(0, 255, SampleBytes6)}

\* <mac address='52:54:00:0c:94:61'/>
FixedMac == <<"5", "2", ":", "5", "4", ":", "0", "0", ":", "0", "c", ":", "9", "4", ":", "6", "1">>

\* The same address as a DHCP lease may spell it.
UpperMac == <<"5", "2", ":", "5", "4", ":", "0", "0", ":", "0", "C", ":", "9", "4", ":", "6", "1">>

\* str.lower() on the characters a MAC address holds
LowerChar(ch) ==
  CASE ch = "A" -> "a" [] ch = "B" -> "b" [] ch = "C" -> "c"
    [] ch = "D" -> "d" [] ch = "E" -> "e" [] ch = "F" -> "f" [] OTHER -> ch

lower(s) == [i \in DOMAIN s |-> LowerChar(s[i])]

\* Two more addresses generate_mac can return, the first in capitals too.
OtherMac == JoinMac(<<82, 84, 0, 12, 148, 98>>)
OtherUpperMac == <<"5", "2", ":", "5", "4", ":", "0", "0", ":", "0", "C", ":", "9", "4", ":", "6", "2">>
StrangerMac == JoinMac(<<82, 84, 0, 12, 148, 99>>)

(***************************************************************************)
(* Instructions.  A program maps a label to an instruction; "ok" is the    *)
(* label control goes to when the instruction completes (or its test       *)
(* holds), "err" the label it goes to when the call raises (or the test    *)
(* fails): the except clause that catches it, or the label that lets the   *)
(* exception leave the function.                                           *)
(***************************************************************************)
Call(f, ok, err) == [ins |-> f, ok |-> ok, err |-> err, kind |-> ""]
Test(t, yes, no) == [ins |-> t, ok |-> yes, err |-> no, kind |-> ""]
Stmt(f, next) == [ins |-> f, ok |-> next, err |-> next, kind |-> ""]
Return(kind, next) == [ins |-> "return", ok |-> next, err |-> next, kind |-> kind]
Raise(next) == [ins |-> "raise", ok |-> next, err |-> next, kind |-> "Raise"]

(***************************************************************************)
(* src/vmcli.py: every function opens the connection inside try, returns   *)
(* "Libvirt error: ..." from except libvirt.libvirtError, and closes the   *)
(* connection in finally when it was opened.                               *)
(***************************************************************************)
\* A get_vm_ip that starts the domain, so that it asks for a lease.
vmcli_get_vm_ip_starts_domain == Call("create", "XMLDesc", "except1")

\* get_vm_ip: try: domain = conn.lookupByName(vm_name)
\* except libvirt.libvirtError as e: return f"Libvirt error: {str(e)}"
vmcli_get_vm_ip_lookup == Call("lookupByName", "XMLDesc", "except1")

\* A get_vm_ip that asks for the network also when it found no address.
vmcli_get_vm_ip_macs_unchecked == Test("noMacs", "netLookup", "netLookup")

\* get_vm_ip: if not macs: return None
vmcli_get_vm_ip_if_not_macs == Test("noMacs", "retNone", "netLookup")

vmcli_get_vm_ip ==
  [ entry     |-> Stmt("enter", "open"),
    open      |-> Call("open", "lookup", "except"),
    lookup    |-> vmcli_get_vm_ip_lookup,
    except1   |-> Return("Err", "finally"),
    XMLDesc   |-> Call("XMLDesc", "parse", "except"),
    parse     |-> Call("fromstring", "macs", "propagate"),
    macs      |-> Stmt("findMacsNotNone", "ifNoMacs"),
    ifNoMacs  |-> vmcli_get_vm_ip_if_not_macs,
    retNone   |-> Return("None", "finally"),
    netLookup |-> Call("networkLookupByName", "leases", "except2"),
    leases    |-> Call("DHCPLeases", "match", "except2"),
    except2   |-> Return("Err", "finally"),
    match     |-> Test("leaseMatch", "retIp", "retNone2"),
    retIp     |-> Return("Value", "finally"),
    retNone2  |-> Return("None", "finally"),
    except    |-> Return("Err", "finally"),
    propagate |-> Raise("finally"),
    finally   |-> Stmt("closeIfConn", "done") ]

\* A shutdown_vm that requests the power-off whatever isActive() says.
vmcli_shutdown_vm_always == Test("isActive", "shutdown", "shutdown")

\* shutdown_vm: if domain.isActive(): domain.shutdown(), then return "OK"
vmcli_shutdown_vm_if_active == Test("isActive", "shutdown", "retOK")

vmcli_shutdown_vm ==
  [ entry    |-> Stmt("enter", "open"),
    open     |-> Call("open", "lookup", "except"),
    lookup   |-> Call("lookupByName", "isActive", "except"),
    isActive |-> vmcli_shutdown_vm_if_active,
    shutdown |-> Call("shutdown", "retOK", "except"),
    retOK    |-> Return("OK", "finally"),
    except   |-> Return("Err", "finally"),
    finally  |-> Stmt("closeIfConn", "done") ]

\* A destroy_vm that undefines only a domain it had to stop.
vmcli_destroy_vm_undefine_if_active == Test("isActive", "destroy", "retOK")

\* destroy_vm: if domain.isActive(): domain.destroy(), then domain.undefine()
vmcli_destroy_vm_if_active == Test("isActive", "destroy", "undefine")

vmcli_destroy_vm ==
  [ entry    |-> Stmt("enter", "open"),
    open     |-> Call("open", "lookup", "except"),
    lookup   |-> Call("lookupByName", "isActive", "except"),
    isActive |-> vmcli_destroy_vm_if_active,
    destroy  |-> Call("destroy", "undefine", "except"),
    undefine |-> Call("undefine", "retOK", "except"),
    retOK    |-> Return("OK", "finally"),
    except   |-> Return("Err", "finally"),
    finally  |-> Stmt("closeIfConn", "done") ]

vmcli_list_vms ==
  [ entry   |-> Stmt("enter", "open"),
    open    |-> Call("open", "list", "except"),
    list    |-> Call("listAllDomains", "retVms", "except"),
    retVms  |-> Return("Value", "finally"),
    except  |-> Return("Err", "finally"),
    finally |-> Stmt("closeIfConn", "done") ]

\* A create_vm that starts the domain it finds instead of refusing.
vmcli_create_vm_starts_existing == Call("lookupByName", "start", "mac")

\* create_vm: if conn.lookupByName(name): return "VM ... already exists.";
\* except libvirt.libvirtError: pass
vmcli_create_vm_exists == Call("lookupByName", "retExists", "mac")

\* A create_vm that checks the name first and the path next.
vmcli_create_vm_name_first == Stmt("enter", "ifName")

\* create_vm: the first check is the one on cores
vmcli_create_vm_input_validation == Stmt("enter", "ifCores")

vmcli_create_vm ==
  [ entry        |-> vmcli_create_vm_input_validation,
    ifCores      |-> Test("coresInvalid", "retCores", "ifMemory"),
    retCores     |-> Return("InvalidCores", "done"),
    ifMemory     |-> Test("memoryInvalid", "retMemory", "ifName"),
    retMemory    |-> Return("InvalidMemory", "done"),
    ifName       |-> Test("nameInvalid", "retName", "ifPath"),
    retName      |-> Return("InvalidName", "done"),
    ifPath       |-> Test("pathInvalid", "retPath", "open"),
    retPath      |-> Return("InvalidPath", "done"),
    open         |-> Call("open", "exists", "except"),
    exists       |-> vmcli_create_vm_exists,
    retExists    |-> Return("Exists", "finally"),
    mac          |-> Stmt("generate_mac", "define"),
    define       |-> Call("defineXML", "ifNone", "except3"),
    except3      |-> Return("Err", "finally"),
    ifNone       |-> Test("domainIsNone", "retFailed", "start"),
    retFailed    |-> Return("FailedDefine", "finally"),
    start        |-> Call("create", "retOK", "except4"),
    except4      |-> Return("ErrCreate", "finally"),
    retOK        |-> Return("OK", "finally"),
    except       |-> Return("Err", "finally"),
    finally      |-> Stmt("closeIfConn", "done") ]

vmcli_create_vm_snapshot ==
  [ entry    |-> Stmt("enter", "open"),
    open     |-> Call("open", "lookup", "except"),
    lookup   |-> Call("lookupByName", "snapshot", "except"),
    snapshot |-> Call("snapshotCreateXML", "retOK", "except"),
    retOK    |-> Return("OK", "finally"),
    except   |-> Return("Err", "finally"),
    finally  |-> Stmt("closeIfConn", "done") ]

vmcli_list_vm_snapshots ==
  [ entry     |-> Stmt("enter", "open"),
    open      |-> Call("open", "lookup", "except"),
    lookup    |-> Call("lookupByName", "names", "except"),
    names     |-> Call("snapshotListNames", "descs", "except"),
    descs     |-> Call("snapshotXMLDescs", "parse", "except"),
    parse     |-> Call("fromstrings", "retSnaps", "propagate"),
    retSnaps  |-> Return("Value", "finally"),
    except    |-> Return("Err", "finally"),
    propagate |-> Raise("finally"),
    finally   |-> Stmt("closeIfConn", "done") ]

\* A revert_vm_snapshot that reverts whether or not the snapshot was found.
vmcli_revert_vm_snapshot_lookup_ignored == Call("snapshotLookupByName", "revert", "revert")

\* revert_vm_snapshot: snapshot = domain.snapshotLookupByName(snapshot_name, 0)
vmcli_revert_vm_snapshot_lookup == Call("snapshotLookupByName", "revert", "except")

vmcli_revert_vm_snapshot ==
  [ entry      |-> Stmt("enter", "open"),
    open       |-> Call("open", "lookup", "except"),
    lookup     |-> Call("lookupByName", "snapLookup", "except"),
    snapLookup |-> vmcli_revert_vm_snapshot_lookup,
    revert     |-> Call("revertToSnapshot", "retOK", "except"),
    retOK      |-> Return("OK", "finally"),
    except     |-> Return("Err", "finally"),
    finally    |-> Stmt("closeIfConn", "done") ]

\* A start_vm that returns "OK" whether or not domain.create() raised.
vmcli_start_vm_create_unchecked == Call("create", "retOK", "retOK")

\* start_vm: domain.create() inside the try
vmcli_start_vm_create == Call("create", "retOK", "except")

vmcli_start_vm ==
  [ entry   |-> Stmt("enter", "open"),
    open    |-> Call("open", "lookup", "except"),
    lookup  |-> Call("lookupByName", "start", "except"),
    start   |-> vmcli_start_vm_create,
    retOK   |-> Return("OK", "finally"),
    except  |-> Return("Err", "finally"),
    finally |-> Stmt("closeIfConn", "done") ]

vmcli_reboot_vm ==
  [ entry   |-> Stmt("enter", "open"),
    open    |-> Call("open", "lookup", "except"),
    lookup  |-> Call("lookupByName", "reboot", "except"),
    reboot  |-> Call("reboot", "retOK", "except"),
    retOK   |-> Return("OK", "finally"),
    except  |-> Return("Err", "finally"),
    finally |-> Stmt("closeIfConn", "done") ]

(***************************************************************************)
(* src/handlers.py: every tool opens the connection in a try of its own    *)
(* and returns the error text when that fails; what follows differs from   *)
(* tool to tool, and conn.close() is an ordinary statement of the path it  *)
(* stands on.                                                              *)
(***************************************************************************)
handlers_get_vm_ip ==
  [ entry      |-> Stmt("enter", "open"),
    open       |-> Call("open", "lookup", "openFailed"),
    openFailed |-> Return("Err", "done"),
    lookup     |-> Call("lookupByName", "XMLDesc", "propagate"),
    XMLDesc    |-> Call("XMLDesc", "parse", "propagate"),
    parse      |-> Call("fromstring", "macs", "propagate"),
    macs       |-> Stmt("findMacsTruthy", "ifNoMacs"),
    ifNoMacs   |-> Test("noMacs", "retNone", "netLookup"),
    retNone    |-> Return("None", "done"),
    netLookup  |-> Call("networkLookupByName", "leases", "propagate"),
    leases     |-> Call("DHCPLeases", "match", "propagate"),
    match      |-> Test("leaseMatch", "retIp", "retNone2"),
    retIp      |-> Return("Value", "done"),
    retNone2   |-> Return("None", "done"),
    propagate  |-> Raise("done") ]

handlers_shutdown_vm ==
  [ entry      |-> Stmt("enter", "open"),
    open       |-> Call("open", "lookup", "openFailed"),
    openFailed |-> Return("Err", "done"),
    lookup     |-> Call("lookupByName", "isActive", "except"),
    isActive   |-> Test("isActive", "shutdown", "retOK"),
    shutdown   |-> Call("shutdown", "retOK", "except"),
    retOK      |-> Return("OK", "done"),
    except     |-> Stmt("print", "close"),
    close      |-> Stmt("close", "fallOff"),
    fallOff    |-> Return("None", "done") ]

handlers_destroy_vm ==
  [ entry      |-> Stmt("enter", "open"),
    open       |-> Call("open", "lookup", "openFailed"),
    openFailed |-> Return("Err", "done"),
    lookup     |-> Call("lookupByName", "isActive", "except"),
    isActive   |-> Test("isActive", "destroy", "undefine"),
    destroy    |-> Call("destroy", "undefine", "except"),
    undefine   |-> Call("undefine", "retOK", "except"),
    retOK      |-> Return("OK", "done"),
    except     |-> Stmt("print", "close"),
    close      |-> Stmt("close", "fallOff"),
    fallOff    |-> Return("None", "done") ]

handlers_list_vms ==
  [ entry      |-> Stmt("enter", "open"),
    open       |-> Call("open", "list", "openFailed"),
    openFailed |-> Return("Err", "done"),
    list       |-> Call("listAllDomains", "close", "propagate"),
    close      |-> Stmt("close", "retVms"),
    retVms     |-> Return("Value", "done"),
    propagate  |-> Raise("done") ]

\* A create_vm that goes on to return "OK" when defineXML raised.
handlers_create_vm_define_swallowed == Call("defineXML", "start", "close")

\* create_vm: try: domain = conn.defineXML(domain_xml)
\* except libvirt.libvirtError as e: return f"Libvirt error: {str(e)}"
handlers_create_vm_define == Call("defineXML", "start", "except")

handlers_create_vm ==
  [ entry      |-> Stmt("enter", "open"),
    open       |-> Call("open", "mac", "openFailed"),
    openFailed |-> Return("Err", "done"),
    mac        |-> Stmt("literal_mac", "define"),
    define     |-> handlers_create_vm_define,
    except     |-> Return("Err", "done"),
    start      |-> Call("create", "close", "propagate"),
    close      |-> Stmt("close", "retOK"),
    retOK      |-> Return("OK", "done"),
    propagate  |-> Raise("done") ]

handlers_create_vm_snapshot ==
  [ entry      |-> Stmt("enter", "open"),
    open       |-> Call("open", "lookup", "openFailed"),
    openFailed |-> Return("Err", "done"),
    lookup     |-> Call("lookupByName", "snapshot", "except"),
    snapshot   |-> Call("snapshotCreateXML", "close", "except"),
    close      |-> Stmt("close", "retOK"),
    retOK      |-> Return("OK", "done"),
    except     |-> Return("Err", "done") ]

handlers_list_vm_snapshots ==
  [ entry      |-> Stmt("enter", "open"),
    open       |-> Call("open", "lookup", "openFailed"),
    openFailed |-> Return("Err", "done"),
    lookup     |-> Call("lookupByName", "names", "except"),
    names      |-> Call("snapshotListNames", "descs", "except"),
    descs      |-> Call("snapshotXMLDescs", "parse", "except"),
    parse      |-> Call("fromstrings", "close", "propagate"),
    close      |-> Stmt("close", "retSnaps"),
    retSnaps   |-> Return("Value", "done"),
    except     |-> Return("Err", "done"),
    propagate  |-> Raise("done") ]

handlers_revert_vm_snapshot ==
  [ entry      |-> Stmt("enter", "open"),
    open       |-> Call("open", "lookup", "openFailed"),
    openFailed |-> Return("Err", "done"),
    lookup     |-> Call("lookupByName", "snapLookup", "except"),
    snapLookup |-> Call("snapshotLookupByName", "revert", "except"),
    revert     |-> Call("revertToSnapshot", "close", "except"),
    close      |-> Stmt("close", "retOK"),
    retOK      |-> Return("OK", "done"),
    except     |-> Return("Err", "done") ]

\* A start_vm that goes on to the lookup when libvirt.open raised.
handlers_start_vm_open_ignored == Call("open", "lookup", "lookup")

\* start_vm: try: conn = libvirt.open("qemu:///system")
\* except libvirt.libvirtError as e: return f"Libvirt error: {str(e)}"
handlers_start_vm_open == Call("open", "lookup", "openFailed")

handlers_start_vm ==
  [ entry      |-> Stmt("enter", "open"),
    open       |-> handlers_start_vm_open,
    openFailed |-> Return("Err", "done"),
    lookup     |-> Call("lookupByName", "start", "except"),
    start      |-> Call("create", "close", "except"),
    close      |-> Stmt("close", "retOK"),
    retOK      |-> Return("OK", "done"),
    except     |-> Return("Err", "done") ]

\* A reboot_vm that returns "OK" whether or not domain.reboot(0) raised.
handlers_reboot_vm_reboot_unchecked == Call("reboot", "close", "close")

\* reboot_vm: domain.reboot(0) inside the try
handlers_reboot_vm_reboot == Call("reboot", "close", "except")

handlers_reboot_vm ==
  [ entry      |-> Stmt("enter", "open"),
    open       |-> Call("open", "lookup", "openFailed"),
    openFailed |-> Return("Err", "done"),
    lookup     |-> Call("lookupByName", "reboot", "except"),
    reboot     |-> handlers_reboot_vm_reboot,
    close      |-> Stmt("close", "retOK"),
    retOK      |-> Return("OK", "done"),
    except     |-> Return("Err", "done") ]

Impls == {"vmcli", "handlers"}
Ops ==
  {"get_vm_ip", "shutdown_vm", "destroy_vm", "list_vms", "create_vm",
   "create_vm_snapshot", "list_vm_snapshots", "revert_vm_snapshot", "start_vm", "reboot_vm"}

\* The function a caller runs: main's dispatch in vmcli.py, the tool registry in handlers.py.
Program(impl, op) ==
  IF impl = "vmcli"
  THEN CASE op = "get_vm_ip" -> vmcli_get_vm_ip
         [] op = "shutdown_vm" -> vmcli_shutdown_vm
         [] op = "destroy_vm" -> vmcli_destroy_vm
         [] op = "list_vms" -> vmcli_list_vms
         [] op = "create_vm" -> vmcli_create_vm
         [] op = "create_vm_snapshot" -> vmcli_create_vm_snapshot
         [] op = "list_vm_snapshots" -> vmcli_list_vm_snapshots
         [] op = "revert_vm_snapshot" -> vmcli_revert_vm_snapshot
         [] op = "start_vm" -> vmcli_start_vm
         [] op = "reboot_vm" -> vmcli_reboot_vm
  ELSE CASE op = "get_vm_ip" -> handlers_get_vm_ip
         [] op = "shutdown_vm" -> handlers_shutdown_vm
         [] op = "destroy_vm" -> handlers_destroy_vm
         [] op = "list_vms" -> handlers_list_vms
         [] op = "create_vm" -> handlers_create_vm
         [] op = "create_vm_snapshot" -> handlers_create_vm_snapshot
         [] op = "list_vm_snapshots" -> handlers_list_vm_snapshots
         [] op = "revert_vm_snapshot" -> handlers_revert_vm_snapshot
         [] op = "start_vm" -> handlers_start_vm
         [] op = "reboot_vm" -> handlers_reboot_vm

(***************************************************************************)
(* State.                                                                  *)
(*   dom, snaps      the hypervisor: per name, whether a domain is defined,*)
(*                   whether it is active, the address attributes of its   *)
(*                   interfaces, and the names of its snapshots            *)
(*   call            per caller, the invocation in progress: which         *)
(*                   function, its arguments, its position, its conn       *)
(*                   variable, the exception in flight, its locals, the    *)
(*                   hypervisor calls it has issued, and what it returned  *)
(*   opened, closed  libvirt.open calls that succeeded, conn.close calls   *)
(*   pre             the hypervisor as it was when the invocation started  *)
(***************************************************************************)
VARIABLES dom, snaps, call, opened, closed, pre

vars == <<dom, snaps, call, opened, closed, pre>>

Undefined == [defined |-> FALSE, active |-> FALSE, ifaces |-> <<>>]

\* <interface> elements a domain can have: none, or one <mac address=.../>.
IfaceInputs == {<<>>, <<FixedMac>>}

\* An <mac> element without an address attribute: iface.get('address') is None.
NoneAttr == <<"None">>

\* The <interface> elements of the descriptors get_vm_ip is tried on.
IpIfaceInputs ==
  {<<>>, <<FixedMac>>, <<UpperMac>>, <<OtherMac, FixedMac>>, <<NoneAttr, OtherMac>>, <<NoneAttr>>}

DomainInputs ==
  {Undefined} \cup [defined : {TRUE}, active : BOOLEAN, ifaces : IfaceInputs]

\* DHCP lease tables a network can report.
Lease(mac, ipaddr) == [mac |-> mac, ipaddr |-> ipaddr]

LeaseTables ==
  { <<>>,
    <<Lease(UpperMac, "192.168.122.50")>>,
    <<Lease(StrangerMac, "192.168.122.7")>>,
    <<Lease(StrangerMac, "192.168.122.7"), Lease(FixedMac, "192.168.122.50"),
      Lease(UpperMac, "192.168.122.51")>>,
    <<Lease(OtherMac, "192.168.122.60"), Lease(FixedMac, "192.168.122.50")>>,
    <<Lease(UpperMac, "192.168.122.50"), Lease(OtherUpperMac, "192.168.122.60")>> }

DefaultArgs ==
  [name |-> Vm1, cores |-> 1, memory |-> 128, path |-> DiskPath,
   snap |-> "s1", net |-> "default"]

\* The arguments a caller can pass to each function.
ArgsOf(op) ==
  CASE op = "create_vm" ->
         {[DefaultArgs EXCEPT !.name = n, !.cores = k, !.memory = m, !.path = p] :
            n \in NameInputs, k \in CoresInputs, m \in MemoryInputs, p \in PathInputs}
    [] op = "list_vms" -> {DefaultArgs}
    [] op = "get_vm_ip" ->
         {[DefaultArgs EXCEPT !.name = n, !.net = w] : n \in ValidNames, w \in NetworkInputs}
    [] op \in {"create_vm_snapshot", "revert_vm_snapshot"} ->
         {[DefaultArgs EXCEPT !.name = n, !.snap = x] : n \in ValidNames, x \in SnapNames}
    [] OTHER -> {[DefaultArgs EXCEPT !.name = n] : n \in ValidNames}

NoLocals ==
  [mac |-> <<>>, doc |-> <<>>, macs |-> <<>>, leases |-> <<>>, names |-> <<>>, out |-> <<>>]
NoResult == [kind |-> "", diag |-> "", val |-> <<>>]

Idle ==
  [impl |-> "", op |-> "", args |-> DefaultArgs, pc |-> "idle", conn |-> "none",
   exc |-> "", calls |-> {}, loc |-> NoLocals, result |-> NoResult]

\* A caller at the first statement of a function.
Started(impl, op, args) ==
  [Idle EXCEPT !.impl = impl, !.op = op, !.args = args, !.pc = Program(impl, op).entry.ok]

Running(t) == t.pc \notin {"idle", "done"}
Ins(t) == Program(t.impl, t.op)[t.pc]
At(c, ins) == Running(call[c]) /\ Ins(call[c]).ins \in ins

\* The instruction completed: go on, and note the hypervisor call.
Completed(t) == [t EXCEPT !.pc = Ins(t).ok, !.calls = @ \cup {Ins(t).ins}]

\* The hypervisor rejected the call: libvirtError(diag) is raised.
Raised(t, diag) ==
  [t EXCEPT !.pc = Ins(t).err, !.exc = diag, !.calls = @ \cup {Ins(t).ins}]

\* A step without a hypervisor call.
Went(t, label) == [t EXCEPT !.pc = label]

Hypervisor == [dom |-> dom, snaps |-> snaps]

TypeOK ==
  /\ dom \in [ValidNames -> DomainInputs \cup [defined : {TRUE}, active : BOOLEAN,
                                              ifaces : IpIfaceInputs \cup
                                                {<<m>> : m \in generate_mac}]]
  /\ snaps \in [ValidNames -> SUBSET SnapNames]
  /\ \A n \in ValidNames : ~dom[n].defined => snaps[n] = {}
  /\ opened \in 0..MaxOpens
  /\ closed \in 0..MaxOpens
  /\ \A c \in Callers : call[c].conn \in {"none", "open", "closed"}

Init ==
  /\ dom \in [ValidNames -> DomainInputs]
  /\ snaps \in [ValidNames -> SUBSET SnapNames]
  /\ \A n \in ValidNames : ~dom[n].defined => snaps[n] = {}
  /\ call = [c \in Callers |-> Idle]
  /\ opened = 0
  /\ closed = 0
  /\ pre = Hypervisor

(***************************************************************************)
(* The hypervisor's side of each call.                                     *)
(***************************************************************************)
Defined(n) == n \in ValidNames /\ dom[n].defined
Active(n) == Defined(n) /\ dom[n].active

\* The characters that end the element text or the quoted attribute value
\* the f-string of create_vm puts a name or a path into.
BreaksXml(name, path) ==
  \/ \E i \in DOMAIN name : name[i] \in {"<", "&"}
  \/ \E i \in DOMAIN path : path[i] \in {"<", "&", "'"}

\* conn.defineXML(domain_xml) can succeed: the document parses, it names a
\* domain, and no domain of that name is defined.
CanDefine(a) == a.name \in ValidNames /\ ~BreaksXml(a.name, a.path) /\ ~Defined(a.name)
DefineDiag(a) ==
  IF Defined(a.name) THEN "exists" ELSE IF CanDefine(a) THEN "refused" ELSE "xml"

\* domain.create() can succeed on a defined domain that is not running.
CanStart(n) == Defined(n) /\ ~Active(n)
StartDiag(n) == IF Active(n) THEN "running" ELSE "refused"

\* shutdown, destroy and reboot need a running domain.
CanStop(n) == Active(n)
StopDiag(n) == IF Active(n) THEN "refused" ELSE "notrunning"

\* domain.undefine() is refused while the domain has snapshots.
CanUndefine(n) == Defined(n) /\ ~Active(n) /\ snaps[n] = {}
UndefineDiag(n) == IF Defined(n) /\ snaps[n] # {} THEN "snapshots" ELSE "refused"

CanSnapshot(n, x) == Defined(n) /\ x \notin snaps[n]
SnapshotDiag(n, x) == IF Defined(n) /\ x \in snaps[n] THEN "snapexists" ELSE "refused"

\* The orders in which the hypervisor can enumerate a set of snapshot names.
Enumerations(S) ==
  {q \in [1..Cardinality(S) -> S] : \A i, j \in DOMAIN q : q[i] = q[j] => i = j}

(***************************************************************************)
(* The tests the functions make on their arguments and locals.             *)
(***************************************************************************)
\* not isinstance(cores, int) or cores < 1
coresInvalid(a) == a.cores < 1

\* not isinstance(memory, int) or memory < 128
memoryInvalid(a) == a.memory < 128

\* not name or not isinstance(name, str) or any(c in name for c in "<>&'\"")
nameInvalid(a) == a.name = EmptyStr \/ HasMarkup(a.name)

\* not path or not isinstance(path, str) or any(c in path for c in "<>&'\"")
pathInvalid(a) == a.path = EmptyStr \/ HasMarkup(a.path)

\* vmcli: if addr is not None; handlers: if mac
KeepsMac(ins, addr) ==
  IF ins = "findMacsNotNone" THEN addr # NoneAttr ELSE addr # NoneAttr /\ addr # EmptyStr

\* macs.append(addr.lower()) for every interface kept, in document order
RECURSIVE FindMacs(_, _)
FindMacs(ins, ifaces) ==
  IF ifaces = <<>> THEN <<>>
  ELSE (IF KeepsMac(ins, Head(ifaces)) THEN <<lower(Head(ifaces))>> ELSE <<>>)
         \o FindMacs(ins, Tail(ifaces))

InList(x, list) == \E i \in DOMAIN list : list[i] = x

\* for lease in leases: if lease['mac'].lower() in macs: return lease['ipaddr']
Matching(leases, macs) == {i \in DOMAIN leases : InList(lower(leases[i].mac), macs)}
\* The match the loop would return if it went through the leases backwards.
LastMatch(leases, macs) ==
  CHOOSE i \in Matching(leases, macs) : \A j \in Matching(leases, macs) : i >= j

\* ... return lease['ipaddr'] of the first lease that matches
FirstMatch(leases, macs) ==
  CHOOSE i \in Matching(leases, macs) : \A j \in Matching(leases, macs) : i <= j

\* The value of the test the caller stands at.
TestHolds(t) ==
  LET t_ins == Ins(t).ins IN
  CASE t_ins = "coresInvalid" -> coresInvalid(t.args)
    [] t_ins = "memoryInvalid" -> memoryInvalid(t.args)
    [] t_ins = "nameInvalid" -> nameInvalid(t.args)
    [] t_ins = "pathInvalid" -> pathInvalid(t.args)
    [] t_ins = "domainIsNone" -> FALSE
    [] t_ins = "noMacs" -> t.loc.macs = <<>>
    [] t_ins = "leaseMatch" -> Matching(t.loc.leases, t.loc.macs) # {}

Tests ==
  {"coresInvalid", "memoryInvalid", "nameInvalid", "pathInvalid", "domainIsNone",
   "noMacs", "leaseMatch"}

(***************************************************************************)
(* Actions: one per kind of statement.  Each executes the statement the    *)
(* caller c stands at.  A state-changing hypervisor call is accepted only  *)
(* when the hypervisor's rule for it allows, and may be refused even then. *)
(***************************************************************************)
Update(c, t) == call' = [call EXCEPT ![c] = t]

\* A caller invokes a function; invocations do not overlap.
Invoke(c) ==
  /\ \A d \in Callers : call[d].pc = "idle"
  /\ opened < MaxOpens
  /\ \E impl \in Impls, op \in Ops :
       \E args \in ArgsOf(op) : Update(c, Started(impl, op, args))
  /\ pre' = Hypervisor
  /\ UNCHANGED <<dom, snaps, opened, closed>>

\* The function has returned or raised; the caller takes the result.
Finish(c) ==
  /\ call[c].pc = "done"
  /\ Update(c, Idle)
  /\ pre' = Hypervisor
  /\ UNCHANGED <<dom, snaps, opened, closed>>

\* conn = libvirt.open("qemu:///system")
DoOpen(c) ==
  /\ At(c, {"open"})
  /\ \E accepted \in BOOLEAN :
       /\ Update(c, IF accepted THEN [Completed(call[c]) EXCEPT !.conn = "open"]
                    ELSE Raised(call[c], "connect"))
       /\ opened' = IF accepted THEN opened + 1 ELSE opened
  /\ UNCHANGED <<dom, snaps, closed, pre>>

\* conn.lookupByName(name)
DoLookupByName(c) ==
  /\ At(c, {"lookupByName"})
  /\ Update(c, IF Defined(call[c].args.name) THEN Completed(call[c])
               ELSE Raised(call[c], "nodomain"))
  /\ UNCHANGED <<dom, snaps, opened, closed, pre>>

\* if domain.isActive():
DoIsActive(c) ==
  /\ At(c, {"isActive"})
  /\ Update(c, Went(call[c], IF Active(call[c].args.name) THEN Ins(call[c]).ok
                             ELSE Ins(call[c]).err))
  /\ UNCHANGED <<dom, snaps, opened, closed, pre>>

\* An if on the arguments or the locals.
DoTest(c) ==
  /\ At(c, Tests)
  /\ Update(c, IF TestHolds(call[c])
               THEN [Went(call[c], Ins(call[c]).ok) EXCEPT
                       !.loc.out = IF Ins(call[c]).ins = "leaseMatch"
                                   THEN call[c].loc.leases[FirstMatch(call[c].loc.leases,
                                                                      call[c].loc.macs)].ipaddr
                                   ELSE @]
               ELSE Went(call[c], Ins(call[c]).err))
  /\ UNCHANGED <<dom, snaps, opened, closed, pre>>

\* mac_addr = generate_mac() in vmcli.py, the literal address in handlers.py
DoMac(c) ==
  /\ At(c, {"generate_mac", "literal_mac"})
  /\ \E m \in (IF Ins(call[c]).ins = "generate_mac" THEN generate_mac ELSE {FixedMac}) :
       Update(c, [Went(call[c], Ins(call[c]).ok) EXCEPT !.loc.mac = m])
  /\ UNCHANGED <<dom, snaps, opened, closed, pre>>

\* domain = conn.defineXML(domain_xml)
DoDefineXML(c) ==
  LET a == call[c].args IN
  /\ At(c, {"defineXML"})
  /\ \E accepted \in BOOLEAN :
       /\ accepted => CanDefine(a)
       /\ Update(c, IF accepted THEN Completed(call[c])
                    ELSE Raised(call[c], DefineDiag(a)))
       /\ dom' = IF accepted
                 THEN [dom EXCEPT ![a.name] =
                         [defined |-> TRUE, active |-> FALSE, ifaces |-> <<call[c].loc.mac>>]]
                 ELSE dom
  /\ UNCHANGED <<snaps, opened, closed, pre>>

\* domain.create()
DoCreate(c) ==
  LET n == call[c].args.name IN
  /\ At(c, {"create"})
  /\ \E accepted \in BOOLEAN :
       /\ accepted => CanStart(n)
       /\ Update(c, IF accepted THEN Completed(call[c]) ELSE Raised(call[c], StartDiag(n)))
       /\ dom' = IF accepted THEN [dom EXCEPT ![n].active = TRUE] ELSE dom
  /\ UNCHANGED <<snaps, opened, closed, pre>>

\* domain.shutdown(): the request is accepted; the guest powers off or ignores it.
DoShutdown(c) ==
  LET n == call[c].args.name IN
  /\ At(c, {"shutdown"})
  /\ \E outcome \in {"off", "ignored", "refused"} :
       /\ outcome # "refused" => CanStop(n)
       /\ Update(c, IF outcome # "refused" THEN Completed(call[c])
                    ELSE Raised(call[c], StopDiag(n)))
       /\ dom' = IF outcome = "off" THEN [dom EXCEPT ![n].active = FALSE] ELSE dom
  /\ UNCHANGED <<snaps, opened, closed, pre>>

\* domain.destroy()
DoDestroy(c) ==
  LET n == call[c].args.name IN
  /\ At(c, {"destroy"})
  /\ \E accepted \in BOOLEAN :
       /\ accepted => CanStop(n)
       /\ Update(c, IF accepted THEN Completed(call[c]) ELSE Raised(call[c], StopDiag(n)))
       /\ dom' = IF accepted THEN [dom EXCEPT ![n].active = FALSE] ELSE dom
  /\ UNCHANGED <<snaps, opened, closed, pre>>

\* domain.undefine()
DoUndefine(c) ==
  LET n == call[c].args.name IN
  /\ At(c, {"undefine"})
  /\ \E accepted \in BOOLEAN :
       /\ accepted => CanUndefine(n)
       /\ Update(c, IF accepted THEN Completed(call[c])
                    ELSE Raised(call[c], UndefineDiag(n)))
       /\ dom' = IF accepted THEN [dom EXCEPT ![n] = Undefined] ELSE dom
  /\ UNCHANGED <<snaps, opened, closed, pre>>

\* domain.reboot(0)
DoReboot(c) ==
  LET n == call[c].args.name IN
  /\ At(c, {"reboot"})
  /\ \E accepted \in BOOLEAN :
       /\ accepted => CanStop(n)
       /\ Update(c, IF accepted THEN Completed(call[c]) ELSE Raised(call[c], StopDiag(n)))
  /\ UNCHANGED <<dom, snaps, opened, closed, pre>>

\* domain.snapshotCreateXML(snapshot_xml, 0)
DoSnapshotCreateXML(c) ==
  LET n == call[c].args.name
      x == call[c].args.snap IN
  /\ At(c, {"snapshotCreateXML"})
  /\ \E accepted \in BOOLEAN :
       /\ accepted => CanSnapshot(n, x)
       /\ Update(c, IF accepted THEN Completed(call[c])
                    ELSE Raised(call[c], SnapshotDiag(n, x)))
       /\ snaps' = IF accepted THEN [snaps EXCEPT ![n] = @ \cup {x}] ELSE snaps
  /\ UNCHANGED <<dom, opened, closed, pre>>

\* snapshot = domain.snapshotLookupByName(snapshot_name, 0)
DoSnapshotLookupByName(c) ==
  LET n == call[c].args.name
      x == call[c].args.snap IN
  /\ At(c, {"snapshotLookupByName"})
  /\ Update(c, IF Defined(n) /\ x \in snaps[n] THEN Completed(call[c])
               ELSE Raised(call[c], "nosnapshot"))
  /\ UNCHANGED <<dom, snaps, opened, closed, pre>>

\* domain.revertToSnapshot(snapshot, 0): the domain takes the snapshot's run state.
DoRevertToSnapshot(c) ==
  LET n == call[c].args.name IN
  /\ At(c, {"revertToSnapshot"})
  /\ \E accepted \in BOOLEAN, running \in BOOLEAN :
       /\ accepted => Defined(n)
       /\ ~accepted => ~running
       /\ Update(c, IF accepted THEN Completed(call[c]) ELSE Raised(call[c], "refused"))
       /\ dom' = IF accepted THEN [dom EXCEPT ![n].active = running] ELSE dom
  /\ UNCHANGED <<snaps, opened, closed, pre>>

\* snapshot_names = domain.snapshotListNames(0), in the hypervisor's order
DoSnapshotListNames(c) ==
  /\ At(c, {"snapshotListNames"})
  /\ \E q \in Enumerations(snaps[call[c].args.name]) :
       Update(c, [Completed(call[c]) EXCEPT !.loc.names = q])
  /\ UNCHANGED <<dom, snaps, opened, closed, pre>>

\* snap = domain.snapshotLookupByName(snap_name, 0); snap_xml = snap.getXMLDesc(0),
\* for each listed name; the documents may or may not be well formed.
DoSnapshotXMLDescs(c) ==
  /\ At(c, {"snapshotXMLDescs"})
  /\ \A i \in DOMAIN call[c].loc.names : call[c].loc.names[i] \in snaps[call[c].args.name]
  /\ \E wf \in BOOLEAN :
       /\ call[c].loc.names = <<>> => wf
       /\ Update(c, [Completed(call[c]) EXCEPT !.loc.doc = [wf |-> wf, ifaces |-> <<>>]])
  /\ UNCHANGED <<dom, snaps, opened, closed, pre>>

\* xml_desc = domain.XMLDesc()
DoXMLDesc(c) ==
  /\ At(c, {"XMLDesc"})
  /\ \E wf \in BOOLEAN :
       Update(c, [Completed(call[c]) EXCEPT
                    !.loc.doc = [wf |-> wf, ifaces |-> dom[call[c].args.name].ifaces]])
  /\ UNCHANGED <<dom, snaps, opened, closed, pre>>

\* A loop over the snapshot names that stops one short.
SnapshotEntriesButLast(names) == [i \in 1..(Len(names) - 1) |-> [name |-> names[i]]]

\* for snap_name in snapshot_names: ... snapshots.append({'name': snap_name, ...})
SnapshotEntries(names) == [i \in DOMAIN names |-> [name |-> names[i]]]

\* root = ET.fromstring(...): ParseError on a malformed document.  For
\* list_vm_snapshots each entry is built from its parsed document.
DoFromstring(c) ==
  /\ At(c, {"fromstring", "fromstrings"})
  /\ Update(c, IF call[c].loc.doc.wf
               THEN [Went(call[c], Ins(call[c]).ok) EXCEPT
                       !.loc.out = IF Ins(call[c]).ins = "fromstrings"
                                   THEN SnapshotEntries(call[c].loc.names)
                                   ELSE @]
               ELSE [Went(call[c], Ins(call[c]).err) EXCEPT !.exc = "parse"])
  /\ UNCHANGED <<dom, snaps, opened, closed, pre>>

\* for iface in root.findall("./devices/interface/mac"): ...
DoFindMacs(c) ==
  /\ At(c, {"findMacsNotNone", "findMacsTruthy"})
  /\ Update(c, [Went(call[c], Ins(call[c]).ok) EXCEPT
                  !.loc.macs = FindMacs(Ins(call[c]).ins, call[c].loc.doc.ifaces)])
  /\ UNCHANGED <<dom, snaps, opened, closed, pre>>

\* network = conn.networkLookupByName(network_name)
DoNetworkLookupByName(c) ==
  /\ At(c, {"networkLookupByName"})
  /\ Update(c, IF call[c].args.net \in Networks THEN Completed(call[c])
               ELSE Raised(call[c], "nonetwork"))
  /\ UNCHANGED <<dom, snaps, opened, closed, pre>>

\* leases = network.DHCPLeases()
DoDHCPLeases(c) ==
  /\ At(c, {"DHCPLeases"})
  /\ \E table \in LeaseTables :
       Update(c, [Completed(call[c]) EXCEPT !.loc.leases = table])
  /\ UNCHANGED <<dom, snaps, opened, closed, pre>>

\* for dom in conn.listAllDomains(): vms[name] = {...}
DoListAllDomains(c) ==
  /\ At(c, {"listAllDomains"})
  /\ Update(c, [Completed(call[c]) EXCEPT
                  !.loc.out = [n \in {m \in ValidNames : Defined(m)} |->
                                 [active |-> dom[n].active]]])
  /\ UNCHANGED <<dom, snaps, opened, closed, pre>>

\* The value a return statement gives.
Returned(t) ==
  [kind |-> Ins(t).kind,
   diag |-> IF Ins(t).kind \in {"Err", "ErrCreate"} THEN t.exc ELSE "",
   val |-> IF Ins(t).kind = "Value" THEN t.loc.out ELSE <<>>]

\* return ...
DoReturn(c) ==
  /\ At(c, {"return"})
  /\ Update(c, [Went(call[c], Ins(call[c]).ok) EXCEPT !.result = Returned(call[c])])
  /\ UNCHANGED <<dom, snaps, opened, closed, pre>>

\* No except clause catches the exception: it leaves the function.
DoRaise(c) ==
  /\ At(c, {"raise"})
  /\ Update(c, [Went(call[c], Ins(call[c]).ok) EXCEPT
                  !.result = [kind |-> "Raise", diag |-> call[c].exc, val |-> <<>>]])
  /\ UNCHANGED <<dom, snaps, opened, closed, pre>>

\* except libvirt.libvirtError as e: print(f"Error: {e}")
DoPrint(c) ==
  /\ At(c, {"print"})
  /\ Update(c, Went(call[c], Ins(call[c]).ok))
  /\ UNCHANGED <<dom, snaps, opened, closed, pre>>

\* conn.close(); in vmcli.py under "if conn:" in the finally clause
DoClose(c) ==
  LET closes == Ins(call[c]).ins = "close" \/ call[c].conn # "none" IN
  /\ At(c, {"close", "closeIfConn"})
  /\ Update(c, IF closes
               THEN [Went(call[c], Ins(call[c]).ok) EXCEPT
                       !.conn = "closed", !.calls = @ \cup {"close"}]
               ELSE Went(call[c], Ins(call[c]).ok))
  /\ closed' = IF closes THEN closed + 1 ELSE closed
  /\ UNCHANGED <<dom, snaps, opened, pre>>

Step(c) ==
  \/ DoOpen(c)
  \/ DoLookupByName(c)
  \/ DoIsActive(c)
  \/ DoTest(c)
  \/ DoMac(c)
  \/ DoDefineXML(c)
  \/ DoCreate(c)
  \/ DoShutdown(c)
  \/ DoDestroy(c)
  \/ DoUndefine(c)
  \/ DoReboot(c)
  \/ DoSnapshotCreateXML(c)
  \/ DoSnapshotLookupByName(c)
  \/ DoRevertToSnapshot(c)
  \/ DoSnapshotListNames(c)
  \/ DoSnapshotXMLDescs(c)
  \/ DoXMLDesc(c)
  \/ DoFromstring(c)
  \/ DoFindMacs(c)
  \/ DoNetworkLookupByName(c)
  \/ DoDHCPLeases(c)
  \/ DoListAllDomains(c)
  \/ DoReturn(c)
  \/ DoRaise(c)
  \/ DoPrint(c)
  \/ DoClose(c)

\* Invocations that do not overlap are all made by the first caller.
FirstCaller == CHOOSE c \in Callers : \A d \in Callers : c <= d

\* The caller of a second invocation.
SecondCaller == CHOOSE c \in Callers : c # FirstCaller

Next == Invoke(FirstCaller) \/ \E c \in Callers : Finish(c) \/ Step(c)

Spec == Init /\ [][Next]_vars

(***************************************************************************)
(* Two create_vm invocations with the same name, each on its own           *)
(* connection, interleaved call by call.                                   *)
(***************************************************************************)
InitRace ==
  /\ dom \in [ValidNames -> DomainInputs]
  /\ snaps \in [ValidNames -> SUBSET SnapNames]
  /\ \A n \in ValidNames : ~dom[n].defined => snaps[n] = {}
  /\ \E n \in ValidNames :
       call \in [Callers -> {Started(impl, "create_vm", [DefaultArgs EXCEPT !.name = n]) :
                               impl \in Impls}]
  /\ opened = 0
  /\ closed = 0
  /\ pre = Hypervisor

NextRace ==
  \E c \in Callers :
    \/ DoTest(c)
    \/ DoOpen(c)
    \/ DoLookupByName(c)
    \/ DoMac(c)
    \/ DoDefineXML(c)
    \/ DoCreate(c)
    \/ DoReturn(c)
    \/ DoRaise(c)
    \/ DoClose(c)

SpecRace == InitRace /\ [][NextRace]_vars

(***************************************************************************)
(* Two create_vm invocations on a hypervisor that has no domain yet, with  *)
(* the same or with different names, interleaved call by call.             *)
(***************************************************************************)
InitCreate ==
  /\ dom = [n \in ValidNames |-> Undefined]
  /\ snaps = [n \in ValidNames |-> {}]
  /\ call \in [Callers -> {Started(impl, "create_vm", [DefaultArgs EXCEPT !.name = n]) :
                             impl \in Impls, n \in ValidNames}]
  /\ opened = 0
  /\ closed = 0
  /\ pre = Hypervisor

SpecCreate == InitCreate /\ [][NextRace]_vars

(***************************************************************************)
(* The same operation with the same arguments run in both files: the       *)
(* first caller runs the function of vmcli.py, the second caller the       *)
(* function of handlers.py.  So that neither run changes the state the     *)
(* other started from, the two domains are twins (same definition, run     *)
(* state, interfaces and snapshots) and each run names its own twin; a     *)
(* name that is not a valid one is passed to both.                         *)
(***************************************************************************)
Twin(a) == IF a.name = Vm1 THEN [a EXCEPT !.name = Vm2] ELSE a

InitPair ==
  /\ \E d \in DomainInputs, x \in SUBSET SnapNames :
       /\ ~d.defined => x = {}
       /\ dom = [n \in ValidNames |-> d]
       /\ snaps = [n \in ValidNames |-> x]
  /\ \E op \in Ops :
       \E args \in {a \in ArgsOf(op) : a.name # Vm2} :
         call = [c \in Callers |-> IF c = FirstCaller THEN Started("vmcli", op, args)
                                   ELSE Started("handlers", op, Twin(args))]
  /\ opened = 0
  /\ closed = 0
  /\ pre = Hypervisor

NextPair == \E c \in Callers : Step(c)

SpecPair == InitPair /\ [][NextPair]_vars

(***************************************************************************)
(* get_vm_ip alone, on descriptors with none, one or two interfaces, an    *)
(* address in capitals, and an interface without an address attribute.     *)
(***************************************************************************)
InitIp ==
  /\ dom \in [ValidNames -> {Undefined} \cup [defined : {TRUE}, active : BOOLEAN,
                                               ifaces : IpIfaceInputs]]
  /\ snaps = [n \in ValidNames |-> {}]
  /\ call = [c \in Callers |-> Idle]
  /\ opened = 0
  /\ closed = 0
  /\ pre = Hypervisor

InvokeGetVmIp(c) ==
  /\ \A d \in Callers : call[d].pc = "idle"
  /\ opened < MaxOpens
  /\ \E impl \in Impls :
       \E args \in ArgsOf("get_vm_ip") : Update(c, Started(impl, "get_vm_ip", args))
  /\ pre' = Hypervisor
  /\ UNCHANGED <<dom, snaps, opened, closed>>

NextIp ==
  \/ InvokeGetVmIp(FirstCaller)
  \/ Finish(FirstCaller)
  \/ DoOpen(FirstCaller)
  \/ DoLookupByName(FirstCaller)
  \/ DoXMLDesc(FirstCaller)
  \/ DoFromstring(FirstCaller)
  \/ DoFindMacs(FirstCaller)
  \/ DoTest(FirstCaller)
  \/ DoNetworkLookupByName(FirstCaller)
  \/ DoDHCPLeases(FirstCaller)
  \/ DoReturn(FirstCaller)
  \/ DoRaise(FirstCaller)
  \/ DoClose(FirstCaller)

SpecIp == InitIp /\ [][NextIp]_vars

(***************************************************************************)
(* A create_vm_snapshot call followed, once it has returned, by a          *)
(* list_vm_snapshots call of the second caller; nothing comes between.     *)
(***************************************************************************)
InitRoundTrip ==
  /\ dom \in [ValidNames -> DomainInputs]
  /\ snaps \in [ValidNames -> SUBSET SnapNames]
  /\ \A n \in ValidNames : ~dom[n].defined => snaps[n] = {}
  /\ \E impl \in Impls, args \in ArgsOf("create_vm_snapshot") :
       call = [c \in Callers |-> IF c = FirstCaller
                                 THEN Started(impl, "create_vm_snapshot", args)
                                 ELSE Idle]
  /\ opened = 0
  /\ closed = 0
  /\ pre = Hypervisor

InvokeListVmSnapshots(c) ==
  /\ call[FirstCaller].pc = "done"
  /\ call[c].pc = "idle"
  /\ \E impl \in Impls :
       \E args \in ArgsOf("list_vm_snapshots") :
         Update(c, Started(impl, "list_vm_snapshots", args))
  /\ pre' = Hypervisor
  /\ UNCHANGED <<dom, snaps, opened, closed>>

NextRoundTrip ==
  \/ InvokeListVmSnapshots(SecondCaller)
  \/ \E c \in Callers :
       \/ DoOpen(c)
       \/ DoLookupByName(c)
       \/ DoSnapshotCreateXML(c)
       \/ DoSnapshotListNames(c)
       \/ DoSnapshotXMLDescs(c)
       \/ DoFromstring(c)
       \/ DoReturn(c)
       \/ DoRaise(c)
       \/ DoClose(c)

SpecRoundTrip == InitRoundTrip /\ [][NextRoundTrip]_vars

(***************************************************************************)
(* Vocabulary of the properties.                                           *)
(***************************************************************************)
\* The caller's function has returned or raised.
Done(c, op) == call[c].pc = "done" /\ call[c].op = op

\* The result is an error value: text that reports a failure.
ErrorKinds ==
  {"Err", "ErrCreate", "Exists", "InvalidCores", "InvalidMemory", "InvalidName",
   "InvalidPath", "FailedDefine"}
IsError(r) == r.kind \in ErrorKinds

\* The hypervisor calls that change its state.
StateChanging ==
  {"defineXML", "create", "shutdown", "destroy", "undefine", "reboot",
   "snapshotCreateXML", "revertToSnapshot"}

\* The invocation got a connection; it got a handle on its domain.
Connected(c) == call[c].conn # "none"
LookedUp(c) == "lookupByName" \in call[c].calls

\* The domain the invocation names, as it was when the invocation started.
Before(c) ==
  IF call[c].args.name \in ValidNames THEN pre.dom[call[c].args.name] ELSE Undefined

Quiescent == \A c \in Callers : ~Running(call[c])

\* C1: every connection that was opened is closed exactly once before the
\* operation returns or raises: whenever no operation is in progress, the
\* number of closes equals the number of successful opens.
C1_ClosesEqualOpens == Quiescent => closed = opened

\* C2: create_vm with cores < 1, memory < 128, or a name or path that is
\* empty or holds one of < > & ' " returns a validation error without
\* opening a connection and without changing the hypervisor.
C2_InvalidArgs(a) ==
  \/ a.cores < 1
  \/ a.memory < 128
  \/ a.name = <<>> \/ \E i \in DOMAIN a.name : a.name[i] \in {"<", ">", "&", "'", "\""}
  \/ a.path = <<>> \/ \E i \in DOMAIN a.path : a.path[i] \in {"<", ">", "&", "'", "\""}

C2_InvalidCreateRejected ==
  \A c \in Callers :
    Done(c, "create_vm") /\ C2_InvalidArgs(call[c].args) =>
      /\ call[c].result.kind \in {"InvalidCores", "InvalidMemory", "InvalidName", "InvalidPath"}
      /\ "open" \notin call[c].calls
      /\ Hypervisor = pre

\* C3: create_vm with a name that is already defined fails with an
\* already-exists error (from its own lookup, or the hypervisor's refusal of
\* the duplicate definition) and leaves the hypervisor as it was: the
\* existing domain is not redefined and not started.  The error is the
\* already-exists one whenever the call got as far as the hypervisor, that
\* is, its arguments passed validation and the connection opened.
C3_AlreadyExists(r) == r.kind = "Exists" \/ (r.kind = "Err" /\ r.diag = "exists")

C3_CreateExistingFails ==
  \A c \in Callers :
    Done(c, "create_vm") /\ Before(c).defined =>
      /\ IsError(call[c].result)
      /\ Hypervisor = pre
      /\ Connected(c) /\ ~C2_InvalidArgs(call[c].args) => C3_AlreadyExists(call[c].result)

C3_Witness ==
  \E c \in Callers :
    /\ Done(c, "create_vm")
    /\ Before(c).defined
    /\ ~Before(c).active
    /\ Connected(c)
    /\ C3_AlreadyExists(call[c].result)

\* C4: of two concurrent create_vm calls with the same name, never both
\* return "OK"; and when the name was free and the hypervisor refused no
\* call for a reason of its own (the connection opened, the definition and
\* the start were refused only for the name being taken or the domain
\* running), exactly one returns "OK" and the other returns an
\* already-exists error.
C4_Unrelated(c) == call[c].exc \in {"connect", "refused"}

C4_Conflict(r) ==
  \/ C3_AlreadyExists(r)
  \/ r.kind \in {"Err", "ErrCreate"} /\ r.diag = "running"

C4_ExactlyOneCreateWins ==
  \A c, d \in Callers :
    c # d /\ Done(c, "create_vm") /\ Done(d, "create_vm")
        /\ call[c].args.name = call[d].args.name =>
      /\ ~(call[c].result.kind = "OK" /\ call[d].result.kind = "OK")
      /\ ~Before(c).defined /\ ~C4_Unrelated(c) /\ ~C4_Unrelated(d) =>
           \/ call[c].result.kind = "OK" /\ C4_Conflict(call[d].result)
           \/ call[d].result.kind = "OK" /\ C4_Conflict(call[c].result)

C4_Witness ==
  \E c, d \in Callers :
    /\ c # d
    /\ Done(c, "create_vm") /\ Done(d, "create_vm")
    /\ ~Before(c).defined
    /\ "defineXML" \in call[c].calls /\ "defineXML" \in call[d].calls
    /\ call[c].result.kind = "OK"
    /\ C3_AlreadyExists(call[d].result)

\* C5: create_vm returns "OK" only if the definition and the start both
\* succeeded, and then the VM is defined and active, and list_vms reports
\* the active flag the hypervisor holds; if the definition succeeds and the
\* start fails, create_vm returns an error result (it neither raises nor
\* returns "OK") and the VM stays defined and inactive.
C5_CreateOkOnlyIfStarted ==
  \A c \in Callers :
    /\ Done(c, "create_vm") /\ call[c].result.kind = "OK" =>
         /\ {"defineXML", "create"} \subseteq call[c].calls
         /\ ~Before(c).defined
         /\ Active(call[c].args.name)
    /\ Done(c, "create_vm") /\ ~Before(c).defined /\ Defined(call[c].args.name)
         /\ ~Active(call[c].args.name) =>
         call[c].result.kind \in {"Err", "ErrCreate"}
    /\ Done(c, "list_vms") /\ call[c].result.kind = "Value" =>
         /\ DOMAIN call[c].result.val = {n \in ValidNames : Defined(n)}
         /\ \A n \in DOMAIN call[c].result.val : call[c].result.val[n].active = dom[n].active

\* C6: whenever a hypervisor call of an operation is rejected, the result
\* of the operation is an error value carrying the diagnostic; it is never
\* "OK", None or a raised exception.  (The failed lookup by which
\* vmcli.create_vm learns that the name is free is not a rejection.)
C6_Rejected(t) ==
  /\ t.exc \notin {"", "parse"}
  /\ ~(t.impl = "vmcli" /\ t.op = "create_vm" /\ t.exc = "nodomain")

C6_RejectionReported ==
  \A c \in Callers :
    call[c].pc = "done" /\ C6_Rejected(call[c]) =>
      /\ call[c].result.kind \in {"Err", "ErrCreate"}
      /\ call[c].result.diag = call[c].exc

\* C7: every operation on a VM name other than create, called with a name
\* that is not defined, returns a not-found error result and leaves the
\* hypervisor unchanged (given that the connection opened).
C7_NameOps == Ops \ {"create_vm", "list_vms"}

C7_UndefinedNameNotFound ==
  \A c \in Callers :
    call[c].pc = "done" /\ call[c].op \in C7_NameOps /\ ~Before(c).defined
        /\ Connected(c) =>
      /\ call[c].result.kind = "Err"
      /\ call[c].result.diag = "nodomain"
      /\ Hypervisor = pre

\* C8: shutdown_vm on a defined VM requests the power-off exactly when the
\* VM is active; on an inactive VM it makes no state-changing call, returns
\* "OK" (given that the connection opened) and changes nothing.  It never
\* destroys or undefines: the VM is still defined afterwards, and only its
\* active flag can have changed.
C8_ShutdownOnlyIfActive ==
  \A c \in Callers :
    Done(c, "shutdown_vm") /\ Before(c).defined =>
      LET n == call[c].args.name IN
      /\ "shutdown" \in call[c].calls <=> Connected(c) /\ Before(c).active
      /\ Connected(c) /\ ~Before(c).active =>
           /\ call[c].calls \cap StateChanging = {}
           /\ call[c].result.kind = "OK"
           /\ Hypervisor = pre
      /\ call[c].calls \cap {"destroy", "undefine"} = {}
      /\ Defined(n)
      /\ dom[n].ifaces = Before(c).ifaces
      /\ dom[n].active => Before(c).active
      /\ snaps = pre.snaps
      /\ \A m \in ValidNames \ {n} : dom[m] = pre.dom[m]

C8_Witness ==
  \E c \in Callers :
    /\ Done(c, "shutdown_vm")
    /\ Before(c).defined
    /\ ~Before(c).active
    /\ Connected(c)
    /\ call[c].result.kind = "OK"

\* C9: destroy_vm on a defined VM force-stops it exactly when it is active
\* and then undefines it; the undefine is attempted also when the VM was
\* inactive; whenever destroy_vm returns "OK" the VM is no longer defined.
C9_DestroyThenUndefine ==
  \A c \in Callers :
    Done(c, "destroy_vm") =>
      LET n == call[c].args.name IN
      /\ call[c].result.kind = "OK" => ~Defined(n)
      /\ Before(c).defined /\ Connected(c) =>
           /\ "destroy" \in call[c].calls <=> Before(c).active
           /\ ~Before(c).active => "undefine" \in call[c].calls
           /\ Before(c).active /\ ~Active(n) => "undefine" \in call[c].calls
           /\ "undefine" \in call[c].calls /\ Defined(n) => call[c].result.kind # "OK"

C9_Witness ==
  \E c \in Callers :
    /\ Done(c, "destroy_vm")
    /\ Before(c).defined
    /\ ~Before(c).active
    /\ "undefine" \in call[c].calls
    /\ "destroy" \notin call[c].calls
    /\ call[c].result.kind = "OK"
    /\ ~Defined(call[c].args.name)

\* C10: start_vm on a VM that is already active returns an error and
\* leaves it active; start_vm on a defined, inactive VM makes it active and
\* returns "OK" when the hypervisor accepts the start, and otherwise returns
\* the hypervisor's error and leaves it inactive.
C10_StartVm ==
  \A c \in Callers :
    Done(c, "start_vm") /\ Before(c).defined /\ Connected(c) =>
      LET n == call[c].args.name IN
      /\ "create" \in call[c].calls
      /\ Before(c).active => IsError(call[c].result) /\ Active(n)
      /\ ~Before(c).active =>
           \/ call[c].result.kind = "OK" /\ Active(n)
           \/ call[c].result = [kind |-> "Err", diag |-> "refused", val |-> <<>>] /\ ~Active(n)
      /\ dom[n].ifaces = Before(c).ifaces
      /\ snaps = pre.snaps
      /\ \A m \in ValidNames \ {n} : dom[m] = pre.dom[m]

C10_Witness ==
  \E c \in Callers :
    /\ Done(c, "start_vm")
    /\ Before(c).defined
    /\ Before(c).active
    /\ call[c].result = [kind |-> "Err", diag |-> "running", val |-> <<>>]
    /\ Active(call[c].args.name)

\* C11: reboot_vm on a defined VM (given that the connection opened) issues
\* the reset request and nothing else that changes state; on a VM that is
\* not active the request is rejected, reboot_vm returns the error and the
\* VM is still inactive; on an active VM the VM stays defined and active,
\* and reboot_vm returns "OK" unless the hypervisor refused the request.
C11_RebootVm ==
  \A c \in Callers :
    Done(c, "reboot_vm") /\ Before(c).defined /\ Connected(c) =>
      LET n == call[c].args.name IN
      /\ call[c].calls \cap StateChanging = {"reboot"}
      /\ ~Before(c).active =>
           /\ call[c].result = [kind |-> "Err", diag |-> "notrunning", val |-> <<>>]
           /\ ~Active(n)
      /\ Before(c).active =>
           /\ Defined(n) /\ Active(n)
           /\ \/ call[c].result.kind = "OK"
              \/ call[c].result = [kind |-> "Err", diag |-> "refused", val |-> <<>>]
      /\ Hypervisor = pre

C11_Witness ==
  \E c \in Callers :
    /\ Done(c, "reboot_vm")
    /\ call[c].impl = "handlers"
    /\ Before(c).defined
    /\ ~Before(c).active
    /\ "reboot" \in call[c].calls
    /\ call[c].result.kind = "Err"

\* C12: when libvirt.open fails, the operation returns the error as its
\* result: it makes no lookup, no state-changing call and no close, it does
\* not raise, and the hypervisor is as it was.
C12_OpenFailureReported ==
  \A c \in Callers :
    call[c].pc = "done" /\ "open" \in call[c].calls /\ call[c].conn = "none" =>
      /\ call[c].result = [kind |-> "Err", diag |-> "connect", val |-> <<>>]
      /\ call[c].calls = {"open"}
      /\ Hypervisor = pre

C12_Witness ==
  \E c \in Callers :
    /\ Done(c, "start_vm")
    /\ call[c].impl = "handlers"
    /\ Before(c).defined
    /\ call[c].calls = {"open"}
    /\ call[c].result.diag = "connect"

\* C13: once get_vm_ip has read the lease table, it returns the IP address
\* of the first lease, in the order of the table, whose MAC equals that of
\* some interface of the VM's descriptor when letter case is ignored, and
\* None when no lease does.
C13_SameMac(a, b) ==
  /\ Len(a) = Len(b)
  /\ \A i \in DOMAIN a : LowerChar(a[i]) = LowerChar(b[i])

C13_Matches(leases, ifaces) ==
  {i \in DOMAIN leases : \E j \in DOMAIN ifaces : C13_SameMac(leases[i].mac, ifaces[j])}

C13_FirstLeaseMatch ==
  \A c \in Callers :
    Done(c, "get_vm_ip") /\ "DHCPLeases" \in call[c].calls =>
      LET leases == call[c].loc.leases
          found == C13_Matches(leases, Before(c).ifaces) IN
      IF found = {}
      THEN call[c].result.kind = "None"
      ELSE /\ call[c].result.kind = "Value"
           /\ \E i \in found :
                /\ \A j \in found : i <= j
                /\ call[c].result.val = leases[i].ipaddr

C13_Witness ==
  \E c \in Callers :
    /\ Done(c, "get_vm_ip")
    /\ Before(c).ifaces = <<UpperMac>>
    /\ Len(call[c].loc.leases) = 3
    /\ call[c].loc.leases[2].mac = FixedMac
    /\ C13_Matches(call[c].loc.leases, Before(c).ifaces) = {2, 3}
    /\ call[c].result.kind = "Value"
    /\ call[c].result.val = "192.168.122.50"

\* C14: for a defined VM whose descriptor (a well-formed document) has no
\* network interface, get_vm_ip returns None once the connection opened,
\* whatever network is named, and does not ask for the network.
C14_NoInterfaceAbsent ==
  \A c \in Callers :
    Done(c, "get_vm_ip") /\ Before(c).defined /\ Before(c).ifaces = <<>>
        /\ Connected(c) /\ call[c].exc # "parse" =>
      /\ call[c].result.kind = "None"
      /\ call[c].calls \cap {"networkLookupByName", "DHCPLeases"} = {}

C14_Witness ==
  \E c \in Callers :
    /\ Done(c, "get_vm_ip")
    /\ Before(c).defined
    /\ Before(c).ifaces = <<>>
    /\ call[c].args.net \notin Networks
    /\ call[c].result.kind = "None"

\* C15: for a defined VM with an interface that has a MAC, get_vm_ip with
\* a network name that does not resolve returns a not-found error result;
\* it neither returns None nor raises (given that the connection opened
\* and the descriptor is well formed).
C15_UnknownNetworkNotFound ==
  \A c \in Callers :
    Done(c, "get_vm_ip") /\ Before(c).defined
        /\ (\E j \in DOMAIN Before(c).ifaces : Before(c).ifaces[j] # NoneAttr)
        /\ call[c].args.net \notin Networks
        /\ Connected(c) /\ call[c].exc # "parse" =>
      call[c].result = [kind |-> "Err", diag |-> "nonetwork", val |-> <<>>]

\* C16: after create_vm_snapshot(vm, s) has returned "OK", a
\* list_vm_snapshots(vm) that follows returns a sequence (whenever its
\* connection opened and the snapshot documents are well formed) that has
\* an entry named s, and whose entries are the hypervisor's snapshots of
\* the VM in the order the hypervisor enumerated them.
C16_SnapshotRoundTrip ==
  LET made == call[FirstCaller]
      list == call[SecondCaller] IN
  /\ made.op = "create_vm_snapshot" /\ made.pc = "done" /\ made.result.kind = "OK"
  /\ Done(SecondCaller, "list_vm_snapshots")
  /\ list.args.name = made.args.name
  =>
  /\ Connected(SecondCaller) /\ list.exc # "parse" => list.result.kind = "Value"
  /\ list.result.kind = "Value" =>
       /\ \E i \in DOMAIN list.result.val : list.result.val[i].name = made.args.snap
       /\ Len(list.result.val) = Len(list.loc.names)
       /\ \A i \in DOMAIN list.result.val : list.result.val[i].name = list.loc.names[i]
       /\ {list.loc.names[i] : i \in DOMAIN list.loc.names} = snaps[list.args.name]
       /\ Len(list.loc.names) = Cardinality(snaps[list.args.name])

C16_Witness ==
  /\ call[FirstCaller].op = "create_vm_snapshot"
  /\ call[FirstCaller].result.kind = "OK"
  /\ Done(SecondCaller, "list_vm_snapshots")
  /\ call[SecondCaller].args.name = call[FirstCaller].args.name
  /\ call[SecondCaller].result.kind = "Value"
  /\ Len(call[SecondCaller].result.val) = 2
  /\ call[SecondCaller].result.val[1].name = call[FirstCaller].args.snap

\* C17: revert_vm_snapshot(vm, snap) on a defined VM that has no snapshot
\* named snap returns a not-found error result (given that the connection
\* opened), never issues the revert, and leaves the hypervisor as it was:
\* the same defined and active status and the same snapshots.
C17_RevertMissingSnapshot ==
  \A c \in Callers :
    Done(c, "revert_vm_snapshot") /\ Before(c).defined
        /\ call[c].args.snap \notin pre.snaps[call[c].args.name] =>
      /\ "revertToSnapshot" \notin call[c].calls
      /\ Hypervisor = pre
      /\ IsError(call[c].result)
      /\ Connected(c) =>
           call[c].result = [kind |-> "Err", diag |-> "nosnapshot", val |-> <<>>]

C17_Witness ==
  \E c \in Callers :
    /\ Done(c, "revert_vm_snapshot")
    /\ Before(c).defined
    /\ Before(c).active
    /\ pre.snaps[call[c].args.name] = SnapNames \ {call[c].args.snap}
    /\ "snapshotLookupByName" \in call[c].calls
    /\ call[c].result.diag = "nosnapshot"

\* C18: after two create_vm calls with different names have both returned
\* "OK", the two VMs they created have no interface MAC in common, and
\* every MAC of a created VM begins with 52:54:00.
C18_Prefix(m) == Len(m) = 17 /\ SubSeq(m, 1, 9) = <<"5", "2", ":", "5", "4", ":", "0", "0", ":">>

C18_NoMacCollision ==
  \A c, d \in Callers :
    /\ c # d
    /\ Done(c, "create_vm") /\ call[c].result.kind = "OK"
    /\ Done(d, "create_vm") /\ call[d].result.kind = "OK"
    /\ call[c].args.name # call[d].args.name
    =>
    LET x == dom[call[c].args.name].ifaces
        y == dom[call[d].args.name].ifaces IN
    /\ \A i \in DOMAIN x : \A j \in DOMAIN y : x[i] # y[j]
    /\ \A i \in DOMAIN x : C18_Prefix(x[i])
    /\ \A j \in DOMAIN y : C18_Prefix(y[j])

\* C19: when the hypervisor hands back a malformed document (the VM
\* descriptor in get_vm_ip, a snapshot descriptor in list_vm_snapshots), the
\* operation returns an error result; the parse exception does not leave
\* the function.  Stated of the functions of vmcli.py, which the claim cites.
C19_MalformedReported ==
  \A c \in Callers :
    call[c].pc = "done" /\ call[c].op \in {"get_vm_ip", "list_vm_snapshots"}
        /\ call[c].impl = "vmcli"
        /\ call[c].loc.doc # <<>> /\ ~call[c].loc.doc.wf =>
      IsError(call[c].result)

\* C20: the checks create_vm makes on its inputs, the error each one
\* reports, and the error of the first check that fails in a given order.
C20_Fails(a, field) ==
  CASE field = "name" ->
         a.name = <<>> \/ \E i \in DOMAIN a.name : a.name[i] \in {"<", ">", "&", "'", "\""}
    [] field = "cores" -> a.cores < 1
    [] field = "memory" -> a.memory < 128
    [] field = "path" ->
         a.path = <<>> \/ \E i \in DOMAIN a.path : a.path[i] \in {"<", ">", "&", "'", "\""}

C20_ErrorOf(field) ==
  CASE field = "name" -> "InvalidName"
    [] field = "cores" -> "InvalidCores"
    [] field = "memory" -> "InvalidMemory"
    [] field = "path" -> "InvalidPath"

C20_FirstFailure(a, order) ==
  LET failing == {i \in DOMAIN order : C20_Fails(a, order[i])} IN
  IF failing = {} THEN "none"
  ELSE C20_ErrorOf(order[CHOOSE i \in failing : \A j \in failing : i <= j])

\* C20 as stated: vmcli.create_vm reports the error of the first failing
\* check in the order name, cores, memory, disk path.
C20_NameCoresMemoryPath ==
  \A c \in Callers :
    Done(c, "create_vm") /\ call[c].impl = "vmcli"
        /\ C20_FirstFailure(call[c].args, <<"name", "cores", "memory", "path">>) # "none" =>
      call[c].result.kind =
        C20_FirstFailure(call[c].args, <<"name", "cores", "memory", "path">>)

\* C20 as amended: vmcli.create_vm reports the error of the first failing
\* check in the order cores, memory, name, disk path, before it opens a
\* connection.
C20_CoresMemoryNamePath ==
  \A c \in Callers :
    Done(c, "create_vm") /\ call[c].impl = "vmcli"
        /\ C20_FirstFailure(call[c].args, <<"cores", "memory", "name", "path">>) # "none" =>
      /\ call[c].result.kind =
           C20_FirstFailure(call[c].args, <<"cores", "memory", "name", "path">>)
      /\ call[c].calls = {}

C20_Witness ==
  \E c \in Callers :
    /\ Done(c, "create_vm")
    /\ call[c].impl = "vmcli"
    /\ C20_Fails(call[c].args, "name")
    /\ C20_Fails(call[c].args, "cores")
    /\ call[c].result.kind = "InvalidCores"

\* C21: get_vm_ip, list_vms and list_vm_snapshots are read-only: from the
\* call to the return or the raise, at every step, the hypervisor is as it
\* was when the operation was called, and the operation issues no
\* state-changing call.  A domain that was not defined when an operation
\* was called is defined only under create_vm, and a domain that was
\* defined is no longer defined only under destroy_vm.
C21_Queries == {"get_vm_ip", "list_vms", "list_vm_snapshots"}

C21_QueriesReadOnly ==
  \A c \in Callers :
    call[c].pc # "idle" =>
      /\ call[c].op \in C21_Queries =>
           /\ Hypervisor = pre
           /\ call[c].calls \cap StateChanging = {}
      /\ (\E n \in ValidNames : dom[n].defined /\ ~pre.dom[n].defined) =>
           call[c].op = "create_vm"
      /\ (\E n \in ValidNames : ~dom[n].defined /\ pre.dom[n].defined) =>
           call[c].op = "destroy_vm"

C21_Witness ==
  \E c \in Callers :
    /\ Done(c, "get_vm_ip")
    /\ call[c].impl = "vmcli"
    /\ Before(c).defined
    /\ ~Before(c).active
    /\ call[c].result.kind = "Value"
    /\ Hypervisor = pre

\* C22: for every operation, hypervisor state and input, the function of
\* handlers.py and the function of vmcli.py return the same result ("OK",
\* the same value, None, or an error) and leave the hypervisor and the
\* connection in the same state, whenever the hypervisor answered the two
\* alike: it opened both connections or neither, refused neither a request
\* its state permits, handed both the same documents, leases and
\* enumeration, and the guest reacted alike to a shutdown or a revert.
C22_Outcome(r) ==
  IF IsError(r) THEN [kind |-> "error", val |-> <<>>] ELSE [kind |-> r.kind, val |-> r.val]

C22_AnsweredAlike(a, b) ==
  /\ (a.conn = "none") = (b.conn = "none")
  /\ a.exc # "refused" /\ b.exc # "refused"
  /\ a.loc.doc = b.loc.doc
  /\ a.loc.leases = b.loc.leases
  /\ a.loc.names = b.loc.names
  /\ a.op \in {"shutdown_vm", "revert_vm_snapshot"} => dom[Vm1].active = dom[Vm2].active

C22_Equivalent ==
  LET a == call[FirstCaller]
      b == call[SecondCaller] IN
  /\ a.pc = "done" /\ b.pc = "done"
  /\ a.impl = "vmcli" /\ b.impl = "handlers"
  /\ a.op = b.op /\ b.args = Twin(a.args)
  /\ C22_AnsweredAlike(a, b)
  =>
  /\ C22_Outcome(a.result) = C22_Outcome(b.result)
  /\ a.conn = b.conn
  /\ dom[Vm1] = dom[Vm2]
  /\ snaps[Vm1] = snaps[Vm2]

====
